---- MODULE Spec2Model ----
(***************************************************************************)
(* Model of the AI Summarizer backend (src/api.py): the request pipeline   *)
(* of the protected routes (/me, /analyze, /history, DELETE /history/{id}) *)
(* over the two MongoDB collections, and the diagnostics run at startup    *)
(* and by GET /health.                                                     *)
(***************************************************************************)
EXTENDS Integers, Sequences, FiniteSets, TLC

\* ---------------------------------------------------------------- bounds
\* number of requests the clients send
MaxRequests == 2
\* number of ticks of the UTC clock (datetime.now)
MaxClock == 1
\* GLOBAL_SETTINGS["max_input_length"] of the configuration file
MaxInputLength == 12
\* number of records in the history store a client pages through
MaxRecords == 2
\* length of a request text, in pieces (placeholders and runs of other
\* characters)
MaxPieces == 2

\* ------------------------------------------------------- program constants
\* Field(..., min_length=10)
MinLength == 10
\* Query(default=20, ge=1, le=100)
LimitMin == 1
LimitMax == 100
\* Query(default=0, ge=0)
SkipMin == 0

None == "none"

\* subjects (uid claim of a decoded token)
Users == {"u1", "u2"}

\* ------------------------------------------------------------- the catalog
\* USECASES: id -> use case, loaded once from the JSON file
\* a string is the sequence of its pieces: the two placeholders
\* "{input_text}" and "{target_language}" and runs of other characters
USECASES ==
  [summary   |-> [name |-> "Summary", extra_params |-> {},
                  prompt_template |-> <<"Summarize:", "{input_text}">>],
   translate |-> [name |-> "Translate", extra_params |-> {"target_language"},
                  prompt_template |->
                    <<"Translate to", "{target_language}", ":", "{input_text}">>]]

\* what USECASES.get hands back for an id that is no key
NoUsecase == [name |-> None, extra_params |-> {}, prompt_template |-> << >>]

\* USECASES.get(usecase_id)
get_usecase(id) == IF id \in DOMAIN USECASES THEN USECASES[id] ELSE NoUsecase

\* usecase_id values a request can carry
UsecaseIds == DOMAIN USECASES \cup {"bogus"}

\* target_language values a request can carry: None, "" and a language
TargetLanguages == {None, "", "fr"}

\* the pieces of a request text
Pieces == {"abc", "{input_text}", "{target_language}"}

\* request texts of n pieces
TextsOf(n) == [1 .. n -> Pieces]

\* the request texts: at least the 10 characters of min_length
Texts == UNION {TextsOf(n) : n \in 1 .. MaxPieces}

\* the pieces of a target_language value
Chars(tl) == IF tl \in {None, ""} THEN << >> ELSE <<tl>>

\* str.replace(old, new): every occurrence of old, left to right, the
\* replacement itself is not scanned again
RECURSIVE replace(_, _, _)
replace(str, old, new) ==
  IF str = << >> THEN << >>
  ELSE IF Head(str) = old
    THEN new \o replace(Tail(str), old, new)
    ELSE <<Head(str)>> \o replace(Tail(str), old, new)

\* text lengths a request can carry
TextLens == {MinLength - 1, MaxInputLength, MaxInputLength + 1}

\* limit / skip values of GET /history
Limits == {LimitMin - 1, LimitMin, LimitMin + 1, LimitMax + 1}
Skips == {SkipMin - 1, SkipMin, SkipMin + 1}

\* history_id path values: a string that is not a well-formed ObjectId
\* (BadObjectId) and the well-formed ones (positive): with n the next
\* ObjectId of the collection, the ids handed out so far and one never issued
BadObjectId == -1
HistoryIds(n) == (1 .. n) \cup {BadObjectId}

\* ------------------------------------------------------------------ state
VARIABLES
  history,   \* history_collection: set of documents
  users,     \* users_collection: set of documents
  nextId,    \* next ObjectId of history_collection
  clock,     \* datetime.now(timezone.utc)
  req,       \* the request being handled and its response
  served,    \* number of requests received so far
  indexes,   \* indexes of the two collections
  diag,      \* the diagnostics run (startup or /health)
  listed,    \* the listing a client that pages through /history got last
  upserts    \* the track_user calls of concurrent handlers

vars ==
  <<history, users, nextId, clock, req, served, indexes, diag, listed, upserts>>

\* ------------------------------------------------------- identity verifier
\* Authorization header shapes seen by HTTPBearer
Headers == {"missing", "malformed", "bearer"}

\* bearer tokens: kind and the subject the token was issued to
TokenKinds == {"valid", "expired", "revoked", "garbage", "unreachable"}
Tokens ==
  [kind : {"valid", "revoked"}, uid : Users]
    \cup [kind : TokenKinds \ {"valid", "revoked"}, uid : {None}]

\* status of the HTTPException HTTPBearer raises when the header is absent
\* or is not "Bearer <credentials>": 403 or 401 depending on the installed
\* FastAPI release
HTTPBearerStatuses == {401, 403}

\* exception classes of firebase_admin.auth and their base classes
Bases(exc) ==
  CASE exc = "ExpiredIdTokenError" ->
         {"ExpiredIdTokenError", "InvalidIdTokenError", "Exception"}
    [] exc = "RevokedIdTokenError" ->
         {"RevokedIdTokenError", "InvalidIdTokenError", "Exception"}
    [] exc = "InvalidIdTokenError" -> {"InvalidIdTokenError", "Exception"}
    [] OTHER -> {exc, "Exception"}

\* firebase_auth.verify_id_token(token): check_revoked is left at its
\* default (False), so a revoked token that is otherwise valid decodes
verify_id_token(token) ==
  CASE token.kind = "valid"       -> [raised |-> None, uid |-> token.uid]
    [] token.kind = "revoked"     -> [raised |-> None, uid |-> token.uid]
    [] token.kind = "expired"     -> [raised |-> "ExpiredIdTokenError", uid |-> None]
    [] token.kind = "garbage"     -> [raised |-> "InvalidIdTokenError", uid |-> None]
    [] token.kind = "unreachable" -> [raised |-> "CertificateFetchError", uid |-> None]

\* verify_firebase_token: the first except clause that matches decides
verify_firebase_token(token) ==
  LET r == verify_id_token(token) IN
  IF r.raised = None
    THEN [status |-> 200, detail |-> "", uid |-> r.uid]
  ELSE IF "ExpiredIdTokenError" \in Bases(r.raised)
    THEN [status |-> 401, detail |-> "Token has expired. Please sign in again.", uid |-> None]
  ELSE IF "RevokedIdTokenError" \in Bases(r.raised)
    THEN [status |-> 401, detail |-> "Token has been revoked. Please sign in again.", uid |-> None]
  ELSE IF "InvalidIdTokenError" \in Bases(r.raised)
    THEN [status |-> 401, detail |-> "Invalid authentication token.", uid |-> None]
  ELSE [status |-> 401, detail |-> "Could not verify credentials.", uid |-> None]

\* ---------------------------------------------------------------- requests
Routes == {"me", "analyze", "history", "delete"}

NoToken == [kind |-> None, uid |-> None]

\* a request nothing has been read from yet
FreshRequest(route) ==
  [route |-> route, pc |-> "received",
   header |-> None, token |-> NoToken, user |-> None,
   textLen |-> 0, text |-> <<"abc">>, prompt |-> << >>, usecase_id |-> None, target_language |-> None,
   history_id |-> 0, limit |-> 0, skip |-> 0,
   lookedUp |-> FALSE, llmCalls |-> 0, llmOutcome |-> None,
   storeOps |-> {}, storeError |-> FALSE, inserted |-> 0,
   status |-> 0, detail |-> "", respHistoryId |-> 0, items |-> << >>,
   total |-> 0]

IdleRequest == [FreshRequest(None) EXCEPT !.pc = "idle"]

\* the response that ends a request
Respond(r, status, detail) ==
  [r EXCEPT !.pc = "done", !.status = status, !.detail = detail]

\* ------------------------------------------------------------ diagnostics
Probes == {"firebase", "mongodb", "cloudflare_ai", "usecases"}

\* a status string: its first character (the check mark or the cross) and
\* the rest
Status(mark, text) == [mark |-> mark, text |-> text]
NoStatus == Status(None, "")

\* what a probe function hands back: the dict it returns, or an exception
\* that leaves it
Returned(status) == [raised |-> FALSE, status |-> status]
Raised == [raised |-> TRUE, status |-> NoStatus]

\* no diagnostics run in progress; ready: startup has logged "Server is ready"
DiagOff(ready) ==
  [mode |-> None, pc |-> "off", ready |-> ready,
   deps |-> [p \in Probes |-> None],
   services |-> [p \in Probes |-> NoStatus],
   executed |-> {}, overall |-> None]

\* a client that has listed nothing yet
NoListing == [user |-> None, skip |-> 0, limit |-> 0, items |-> << >>]

\* the handlers that run concurrently
Handlers == {"h1", "h2"}

\* a handler that has not reached its call of track_user
NoUpsert ==
  [pc |-> "idle", uid |-> None, now |-> 0, inserted |-> FALSE, applied |-> 0]
NoUpserts == [h \in Handlers |-> NoUpsert]

Init ==
  /\ history = {}
  /\ users = {}
  /\ nextId = 1
  /\ clock = 0
  /\ req = IdleRequest
  /\ served = 0
  /\ indexes = {}
  /\ diag = DiagOff(FALSE)
  /\ listed = NoListing
  /\ upserts = NoUpserts

\* the server once startup_diagnostics has logged that it is ready
InitServing ==
  /\ history = {}
  /\ users = {}
  /\ nextId = 1
  /\ clock = 0
  /\ req = IdleRequest
  /\ served = 0
  /\ indexes = {}
  /\ diag = DiagOff(TRUE)
  /\ listed = NoListing
  /\ upserts = NoUpserts

\* a client sends a request on one of the protected routes
NewRequest ==
  /\ diag.ready
  /\ req.pc \in {"idle", "done"}
  /\ served < MaxRequests
  /\ served' = served + 1
  /\ \E route \in Routes : req' = FreshRequest(route)
  /\ UNCHANGED <<history, users, nextId, clock, indexes, diag, listed, upserts>>

\* the clock advances
Tick ==
  /\ clock < MaxClock
  /\ clock' = clock + 1
  /\ UNCHANGED <<history, users, nextId, req, served, indexes, diag, listed, upserts>>

\* AnalyzeRequest: text length within [10, max_input_length]
\* (ValidText_NoMax: the Field without max_length)
ValidText_NoMax(len) == len >= MinLength
ValidText(len) == len >= MinLength /\ len <= MaxInputLength

\* Query(ge=1, le=100) and Query(ge=0)
ValidLimit(limit) == limit >= LimitMin /\ limit <= LimitMax
ValidSkip(skip) == skip >= SkipMin

\* FastAPI resolves the dependencies of the route before it validates the
\* body and the query: the security dependency (HTTPBearer) reads the
\* Authorization header, verify_firebase_token verifies the credentials
Authenticate ==
  /\ req.pc = "received"
  /\ \E header \in Headers :
       IF header # "bearer"
         THEN \E st \in HTTPBearerStatuses :
                req' = Respond([req EXCEPT !.header = header], st, "Not authenticated")
         ELSE \E token \in Tokens :
           LET v == verify_firebase_token(token)
               r1 == [req EXCEPT !.header = header, !.token = token]
           IN
           IF v.status # 200
             THEN req' = Respond(r1, v.status, v.detail)
             ELSE req' = [r1 EXCEPT !.user = v.uid, !.pc = "authenticated"]
  /\ UNCHANGED <<history, users, nextId, clock, served, indexes, diag, listed, upserts>>

\* the request as the route function gets it: the decoded token (user) and
\* the validated parameters, not the bearer token
Validated(r) == [r EXCEPT !.token = NoToken, !.pc = "handler"]

\* FastAPI validates the body (AnalyzeRequest) and the query parameters
\* once the dependencies are solved; a validation error is a 422
ValidateRequest ==
  /\ req.pc = "authenticated"
  /\ CASE req.route = "analyze" ->
            \E len \in TextLens :
              LET r1 == [Validated(req) EXCEPT !.textLen = len] IN
              IF ValidText(len)
                THEN req' = r1
                ELSE req' = Respond(r1, 422, "validation error")
       [] req.route = "history" ->
            \E limit \in Limits, skip \in Skips :
              LET r1 == [Validated(req) EXCEPT !.limit = limit, !.skip = skip] IN
              IF ValidLimit(limit) /\ ValidSkip(skip)
                THEN req' = r1
                ELSE req' = Respond(r1, 422, "validation error")
       [] req.route = "delete" ->
            \E hid \in HistoryIds(nextId) :
              req' = [Validated(req) EXCEPT !.history_id = hid]
       [] OTHER -> req' = Validated(req)
  /\ UNCHANGED <<history, users, nextId, clock, served, indexes, diag, listed, upserts>>

\* an exception no handler catches: Starlette answers 500
UnhandledException(r) == Respond(r, 500, "Internal Server Error")

\* a store operation on a collection, recorded on the request
StoreOp(r, op) == [r EXCEPT !.storeOps = @ \cup {op}]

\* a store operation that raised (connection lost, timeout)
StoreFailure(r, op) ==
  UnhandledException([StoreOp(r, op) EXCEPT !.storeError = TRUE])

\* the documents of the users collection the filter {"uid": uid} matches
matching(coll, uid) == {d \in coll : d.uid = uid}

\* update_one on a match: $set on the first document that matches (the
\* oldest one), $setOnInsert is ignored
upsert_update(coll, uid, now) ==
  LET d == CHOOSE x \in matching(coll, uid) :
             \A y \in matching(coll, uid) : x._id <= y._id
  IN (coll \ {d}) \cup {[d EXCEPT !.last_active = now]}

\* update_one with upsert=True on no match: a new document from the filter,
\* $set and $setOnInsert; the store gives it the next _id
upsert_insert(coll, uid, now) ==
  coll \cup {[_id |-> Cardinality(coll) + 1, uid |-> uid,
               created_at |-> now, last_active |-> now]}

\* users_collection.update_one({"uid": uid}, {$set, $setOnInsert}, upsert=True)
\* when no other upsert runs at the same time
track_user(coll, uid, now) ==
  IF matching(coll, uid) = {}
    THEN upsert_insert(coll, uid, now)
    ELSE upsert_update(coll, uid, now)

\* history_collection.count_documents({"user_uid": uid})
count_documents(coll, uid) == Cardinality({d \in coll : d.user_uid = uid})

\* GET /me
get_current_user ==
  /\ req.pc = "handler" /\ req.route = "me"
  /\ \E upsertOk \in BOOLEAN, countOk \in BOOLEAN :
       IF ~upsertOk
         THEN /\ req' = StoreFailure(req, "users.update_one")
              /\ users' = users
         ELSE /\ users' = track_user(users, req.user, clock)
              /\ LET r1 == StoreOp(req, "users.update_one") IN
                 IF ~countOk
                   THEN req' = StoreFailure(r1, "history.count_documents")
                   ELSE req' = Respond(
                          [StoreOp(r1, "history.count_documents")
                             EXCEPT !.total = count_documents(history, req.user)],
                          200, "")
  /\ UNCHANGED <<history, nextId, clock, served, indexes, diag, listed, upserts>>

\* "not x" of Python for an Optional[str]: None and "" are false
\* (Falsy_NoneOnly: the test "x is None")
Falsy_NoneOnly(x) == x = None
Falsy(x) == x \in {None, ""}

\* POST /analyze: the use-case lookup; an unknown id is a 400
\* (AnalyzeResolve_Unchecked: the lookup without the "if not usecase")
AnalyzeResolve_Unchecked(r, id) ==
  [r EXCEPT !.usecase_id = id, !.lookedUp = TRUE, !.pc = "build_prompt"]
AnalyzeResolve(r, id) ==
  LET r1 == [r EXCEPT !.usecase_id = id, !.lookedUp = TRUE] IN
  IF get_usecase(id) = NoUsecase
    THEN Respond(r1, 400, "Unknown usecase_id")
    ELSE [r1 EXCEPT !.pc = "build_prompt"]

\* POST /analyze: the prompt is built; a use case that lists
\* target_language in extra_params needs a target_language
AnalyzeBuildPrompt(r, tl) ==
  LET usecase == get_usecase(r.usecase_id)
      user_prompt == replace(usecase.prompt_template, "{input_text}", r.text)
      r1 == [r EXCEPT !.target_language = tl]
  IN
  IF "target_language" \in usecase.extra_params
    THEN IF Falsy(tl)
           THEN Respond(r1, 400, "'target_language' is required for this use case.")
           ELSE [r1 EXCEPT
                   !.prompt = replace(user_prompt, "{target_language}", Chars(tl)),
                   !.pc = "call_llm"]
    ELSE [r1 EXCEPT !.prompt = user_prompt, !.pc = "call_llm"]

\* POST /analyze, up to the call of call_llm: use-case lookup and the
\* target_language check
AnalyzePreflight ==
  /\ req.pc = "handler" /\ req.route = "analyze"
  /\ \E id \in UsecaseIds :
       LET r1 == AnalyzeResolve(req, id) IN
       IF r1.pc = "done"
         THEN req' = r1
         ELSE \E tl \in TargetLanguages : req' = AnalyzeBuildPrompt(r1, tl)
  /\ UNCHANGED <<history, users, nextId, clock, served, indexes, diag, listed, upserts>>

\* what the POST to the inference endpoint can do
LlmOutcomes == {"ok", "non_200", "success_false", "transport_error"}

\* call_llm: a non-200 status and a false success flag raise
\* HTTPException(502); an exception of client.post is not caught
call_llm(r, outcome) ==
  LET r1 == [r EXCEPT !.llmCalls = @ + 1, !.llmOutcome = outcome] IN
  CASE outcome = "transport_error" -> UnhandledException(r1)
    [] outcome = "non_200"         -> Respond(r1, 502, "Cloudflare API error")
    [] outcome = "success_false"   -> Respond(r1, 502, "Cloudflare AI errors")
    [] OTHER                       -> [r1 EXCEPT !.pc = "insert"]

\* POST /analyze: result = await call_llm(...)
AnalyzeCallLLM ==
  /\ req.pc = "call_llm"
  /\ \E outcome \in LlmOutcomes : req' = call_llm(req, outcome)
  /\ UNCHANGED <<history, users, nextId, clock, served, indexes, diag, listed, upserts>>

\* the document /analyze stores
history_doc(r, id, now) ==
  [_id |-> id, user_uid |-> r.user, usecase_id |-> r.usecase_id,
   target_language |-> r.target_language, created_at |-> now]

\* insert_one raised: nothing in analyze_text catches it
\* (InsertRaised_Swallowed: an except clause that goes on to track_user)
InsertRaised_Swallowed(r) ==
  [StoreOp(r, "history.insert_one") EXCEPT !.storeError = TRUE, !.pc = "track"]
InsertRaised(r) == StoreFailure(r, "history.insert_one")

\* POST /analyze: history_collection.insert_one(history_doc)
AnalyzeInsert ==
  /\ req.pc = "insert"
  /\ \E ok \in BOOLEAN :
       IF ~ok
         THEN /\ req' = InsertRaised(req)
              /\ UNCHANGED <<history, nextId>>
         ELSE /\ history' = history \cup {history_doc(req, nextId, clock)}
              /\ nextId' = nextId + 1
              /\ req' = [StoreOp(req, "history.insert_one")
                           EXCEPT !.inserted = nextId, !.pc = "track"]
  /\ UNCHANGED <<users, clock, served, indexes, diag, listed, upserts>>

\* POST /analyze: track_user, then the AnalyzeResponse
AnalyzeRespond ==
  /\ req.pc = "track"
  /\ \E ok \in BOOLEAN :
       IF ~ok
         THEN /\ req' = StoreFailure(req, "users.update_one")
              /\ users' = users
         ELSE /\ users' = track_user(users, req.user, clock)
              /\ req' = Respond([StoreOp(req, "users.update_one")
                                   EXCEPT !.respHistoryId = req.inserted],
                                200, "")
  /\ UNCHANGED <<history, nextId, clock, served, indexes, diag, listed, upserts>>

\* the sequences that list every document of docs once
Orderings(docs) ==
  {f \in [1 .. Cardinality(docs) -> docs] :
     \A i, j \in 1 .. Cardinality(docs) : i # j => f[i] # f[j]}

\* .sort("created_at", -1): newest first, documents of equal created_at in
\* an order the store chooses
\* (SortedDesc_Unsorted: the cursor without the .sort)
SortedDesc_Unsorted(docs) == Orderings(docs)
SortedDesc(docs) ==
  {f \in Orderings(docs) :
     \A i, j \in 1 .. Cardinality(docs) :
       i < j => f[i].created_at >= f[j].created_at}

\* .skip(skip).limit(limit)
Window(seq, skip, limit) ==
  LET last == IF skip + limit < Len(seq) THEN skip + limit ELSE Len(seq) IN
  SubSeq(seq, skip + 1, last)

\* find({"user_uid": uid})
\* (find_Unfiltered: find({}))
find_Unfiltered(coll, uid) == coll
find(coll, uid) == {d \in coll : d.user_uid = uid}

\* HistoryItem of a document
HistoryItem(d) ==
  [id |-> d._id, usecase_id |-> d.usecase_id, created_at |-> d.created_at]

\* GET /history
get_history ==
  /\ req.pc = "handler" /\ req.route = "history"
  /\ \E ok \in BOOLEAN :
       IF ~ok
         THEN req' = StoreFailure(req, "history.find")
         ELSE \E sorted \in SortedDesc(find(history, req.user)) :
                LET page == Window(sorted, req.skip, req.limit) IN
                req' = Respond(
                  [StoreOp(req, "history.find")
                     EXCEPT !.items = [i \in 1 .. Len(page) |-> HistoryItem(page[i])]],
                  200, "")
  /\ UNCHANGED <<history, users, nextId, clock, served, indexes, diag, listed, upserts>>

\* delete_one({"_id": id, "user_uid": uid}): the documents it removes
\* (delete_filter_IdOnly: the filter {"_id": id})
delete_filter_IdOnly(coll, id, uid) == {d \in coll : d._id = id}
delete_filter(coll, id, uid) == {d \in coll : d._id = id /\ d.user_uid = uid}

\* DELETE /history/{history_id}: the response, for a store that answers
\* (ok) or raises
delete_response(coll, r, ok) ==
  IF r.history_id = BadObjectId
    THEN \* ObjectId(history_id) raises bson.errors.InvalidId
         UnhandledException(r)
  ELSE IF ~ok
    THEN StoreFailure(r, "history.delete_one")
  ELSE IF delete_filter(coll, r.history_id, r.user) = {}
    THEN Respond(StoreOp(r, "history.delete_one"), 404, "History item not found.")
    ELSE Respond(StoreOp(r, "history.delete_one"), 200, "Deleted successfully.")

\* DELETE /history/{history_id}: the collection afterwards
delete_one(coll, r, ok) ==
  IF r.history_id # BadObjectId /\ ok
    THEN coll \ delete_filter(coll, r.history_id, r.user)
    ELSE coll

\* DELETE /history/{history_id}
delete_history_item ==
  /\ req.pc = "handler" /\ req.route = "delete"
  /\ \E ok \in BOOLEAN :
       /\ req' = delete_response(history, req, ok)
       /\ history' = delete_one(history, req, ok)
  /\ UNCHANGED <<users, nextId, clock, served, indexes, diag, listed, upserts>>

\* ---------------------------------------------------- the probe functions
\* what firebase_admin.get_app() can do
FirebaseOutcomes == {"ok", "get_app_raises"}

\* check_firebase
check_firebase(outcome) ==
  IF outcome = "get_app_raises"
    THEN Returned(Status("err", "error"))
    ELSE Returned(Status("ok", "initialized"))

\* what the store can do during check_mongodb
MongoOutcomes == {"ok", "ping_not_ok", "ping_raises", "create_index_raises"}

HistoryIndex == "user_uid_1_created_at_-1"
UsersIndex == "uid_1_unique"

\* check_mongodb
check_mongodb(outcome) ==
  CASE outcome = "ok"          -> Returned(Status("ok", "connected"))
    [] outcome = "ping_not_ok" -> Returned(Status("err", "ping failed"))
    [] OTHER                   -> Returned(Status("err", "error"))

\* the indexes check_mongodb leaves behind: both when every call succeeds,
\* the first one when the second create_index raises
ensure_indexes(idx, outcome) ==
  CASE outcome = "ok"                  -> idx \cup {HistoryIndex, UsersIndex}
    [] outcome = "create_index_raises" -> idx \cup {HistoryIndex}
    [] OTHER                           -> idx

\* what the test request to the inference endpoint can do
CloudflareOutcomes == {"ok", "non_200", "success_false", "transport_error"}

\* check_cloudflare
\* (check_cloudflare_Uncaught: the body without its try/except)
check_cloudflare_Uncaught(outcome) ==
  CASE outcome = "ok"              -> Returned(Status("ok", "connected"))
    [] outcome = "transport_error" -> Raised
    [] OTHER                       -> Returned(Status("err", "API returned"))
check_cloudflare(outcome) ==
  CASE outcome = "ok"              -> Returned(Status("ok", "connected"))
    [] outcome = "transport_error" -> Returned(Status("err", "error"))
    [] OTHER                       -> Returned(Status("err", "API returned"))

\* check_usecases: the number of use cases loaded, whatever it is
check_usecases(catalog) ==
  Returned(Status("ok", "use cases loaded"))

\* s.get("status", "").startswith of the check mark
StartsWithCheckMark(status) == status.mark = "ok"

\* all_ok of health_check
\* (all_ok_Any: any() in place of all())
all_ok_Any(services) == \E p \in Probes : StartsWithCheckMark(services[p])
all_ok(services) == \A p \in Probes : StartsWithCheckMark(services[p])

\* the order in which each run calls the probes
ProbeOrder(mode) ==
  IF mode = "startup"
    THEN <<"firebase", "mongodb", "cloudflare_ai", "usecases">>
    ELSE <<"mongodb", "cloudflare_ai", "firebase", "usecases">>

\* the step after probe p of a run
AfterProbe(mode, p) ==
  LET order == ProbeOrder(mode)
      i == CHOOSE k \in 1 .. Len(order) : order[k] = p
  IN IF i < Len(order) THEN order[i + 1] ELSE "finish"

\* the run once probe p has handed back res for the dependency outcome dep
Probed(d, p, dep, res) ==
  IF res.raised
    THEN [d EXCEPT !.pc = "aborted", !.deps[p] = dep]
    ELSE [d EXCEPT !.pc = AfterProbe(d.mode, p), !.deps[p] = dep,
                   !.services[p] = res.status, !.executed = @ \cup {p}]

\* the startup event: startup_diagnostics begins
startup_diagnostics ==
  /\ diag.pc = "off" /\ ~diag.ready
  /\ diag' = [diag EXCEPT !.mode = "startup", !.pc = ProbeOrder("startup")[1]]
  /\ UNCHANGED <<history, users, nextId, clock, req, served, indexes, listed, upserts>>

\* GET /health arrives
health_check ==
  /\ diag.pc \in {"off", "done"} /\ diag.ready
  /\ diag' = [DiagOff(TRUE) EXCEPT !.mode = "health", !.pc = ProbeOrder("health")[1]]
  /\ UNCHANGED <<history, users, nextId, clock, req, served, indexes, listed, upserts>>

ProbeFirebase ==
  /\ diag.pc = "firebase"
  /\ \E dep \in FirebaseOutcomes :
       diag' = Probed(diag, "firebase", dep, check_firebase(dep))
  /\ UNCHANGED <<history, users, nextId, clock, req, served, indexes, listed, upserts>>

ProbeMongodb ==
  /\ diag.pc = "mongodb"
  /\ \E dep \in MongoOutcomes :
       /\ diag' = Probed(diag, "mongodb", dep, check_mongodb(dep))
       /\ indexes' = ensure_indexes(indexes, dep)
  /\ UNCHANGED <<history, users, nextId, clock, req, served, listed, upserts>>

ProbeCloudflare ==
  /\ diag.pc = "cloudflare_ai"
  /\ \E dep \in CloudflareOutcomes :
       diag' = Probed(diag, "cloudflare_ai", dep, check_cloudflare(dep))
  /\ UNCHANGED <<history, users, nextId, clock, req, served, indexes, listed, upserts>>

ProbeUsecases ==
  /\ diag.pc = "usecases"
  /\ diag' = Probed(diag, "usecases", "ok", check_usecases(USECASES))
  /\ UNCHANGED <<history, users, nextId, clock, req, served, indexes, listed, upserts>>

\* the end of a run: startup_diagnostics logs "All checks complete. Server
\* is ready."; health_check returns the aggregate
FinishDiagnostics ==
  /\ diag.pc = "finish"
  /\ diag' =
       IF diag.mode = "startup"
         THEN [diag EXCEPT !.pc = "done", !.ready = TRUE]
         ELSE [diag EXCEPT !.pc = "done",
                 !.overall = IF all_ok(diag.services) THEN "healthy" ELSE "degraded"]
  /\ UNCHANGED <<history, users, nextId, clock, req, served, indexes, listed, upserts>>

NextDiag ==
  \/ startup_diagnostics
  \/ health_check
  \/ ProbeFirebase
  \/ ProbeMongodb
  \/ ProbeCloudflare
  \/ ProbeUsecases
  \/ FinishDiagnostics

Next ==
  \/ NewRequest
  \/ Tick
  \/ Authenticate
  \/ ValidateRequest
  \/ get_current_user
  \/ AnalyzePreflight
  \/ AnalyzeCallLLM
  \/ AnalyzeInsert
  \/ AnalyzeRespond
  \/ get_history
  \/ delete_history_item

\* the request pipeline of a server that is up
Spec == InitServing /\ [][Next]_vars

\* the diagnostics: the startup run, then health checks
SpecDiag == Init /\ [][NextDiag]_vars
\* ------------------------------------------- paging through /history
\* the document a successful POST /analyze of subject uid stored with id i
\* at time t
StoredBy(uid, i, t) ==
  history_doc([FreshRequest("analyze") EXCEPT
                 !.user = uid, !.usecase_id = "summary"], i, t)

\* the history stores k successful POST /analyze calls leave behind: ids in
\* the order of the inserts, timestamps in the order of the clock (two
\* inserts within one tick of the clock carry the same created_at)
StoresOf(k) ==
  {{f[i] : i \in 1 .. k} :
     f \in {g \in [1 .. k -> UNION {{StoredBy(u, i, t) : u \in Users, t \in 0 .. MaxClock}
                                      : i \in 1 .. k}] :
              /\ \A i \in 1 .. k : g[i]._id = i
              /\ \A i, j \in 1 .. k : i < j => g[i].created_at <= g[j].created_at}}

Stores == UNION {StoresOf(k) : k \in 0 .. MaxRecords}

\* the record with id i of a store
RecordAt(store, i) == CHOOSE d \in store : d._id = i

\* the users collection after the first k of the calls that wrote store
RECURSIVE Tracked(_, _)
Tracked(store, k) ==
  IF k = 0
    THEN {}
    ELSE track_user(Tracked(store, k - 1),
                    RecordAt(store, k).user_uid, RecordAt(store, k).created_at)

\* the latest created_at of a store
Latest(store) ==
  IF store = {} THEN 0
  ELSE CHOOSE t \in 0 .. MaxClock :
         /\ \E d \in store : d.created_at = t
         /\ \A d \in store : d.created_at <= t

\* a server that is up and has answered some POST /analyze calls
InitListing ==
  /\ history \in Stores
  /\ users = Tracked(history, Cardinality(history))
  /\ nextId = Cardinality(history) + 1
  /\ clock = Latest(history)
  /\ req = IdleRequest
  /\ served = 0
  /\ indexes = {HistoryIndex, UsersIndex}
  /\ diag = DiagOff(TRUE)
  /\ listed = NoListing
  /\ upserts = NoUpserts

\* what a client keeps of the answer to a GET /history
Listing(r) ==
  [user |-> r.user, skip |-> r.skip, limit |-> r.limit, items |-> r.items]

\* a client that pages through its history sends the next GET /history and
\* keeps the listing it got from the previous one
NextPage ==
  /\ diag.ready
  /\ req.pc \in {"idle", "done"}
  /\ served < MaxRequests
  /\ served' = served + 1
  /\ listed' = IF req.route = "history" /\ req.pc = "done" /\ req.status = 200
                 THEN Listing(req)
                 ELSE listed
  /\ req' = FreshRequest("history")
  /\ UNCHANGED <<history, users, nextId, clock, indexes, diag, upserts>>

NextListing ==
  \/ NextPage
  \/ Authenticate
  \/ ValidateRequest
  \/ get_history

\* GET /history calls over a store that does not change
SpecListing == InitListing /\ [][NextListing]_vars

\* ------------------------------------------------ concurrent track_user
\* the position of the next write among the writes applied so far
NextApplied ==
  1 + Cardinality({h \in Handlers : upserts[h].applied # 0})

\* the handler h (GET /me or POST /analyze of subject uid) reaches
\* "await track_user(user)": the arguments are built, datetime.now included,
\* and update_one is sent
TrackUserCall(h) ==
  /\ diag.ready
  /\ upserts[h].pc = "idle"
  /\ \E uid \in Users :
       upserts' = [upserts EXCEPT ![h] =
                     [NoUpsert EXCEPT !.pc = "sent", !.uid = uid, !.now = clock]]
  /\ UNCHANGED <<history, users, nextId, clock, req, served, indexes, diag, listed>>

\* the store runs the query of the upsert: on a match it applies $set to the
\* document; on no match the upsert goes on to insert
UpsertMatch(h) ==
  /\ upserts[h].pc = "sent"
  /\ IF matching(users, upserts[h].uid) = {}
       THEN /\ upserts' = [upserts EXCEPT ![h].pc = "insert"]
            /\ users' = users
       ELSE /\ users' = upsert_update(users, upserts[h].uid, upserts[h].now)
            /\ upserts' = [upserts EXCEPT ![h].pc = "done",
                                          ![h].applied = NextApplied]
  /\ UNCHANGED <<history, nextId, clock, req, served, indexes, diag, listed>>

\* the unique index on uid of check_mongodb rejects a second document of
\* the subject
DuplicateKey(coll, idx, uid) ==
  UsersIndex \in idx /\ matching(coll, uid) # {}

\* the store inserts the document of an upsert that matched nothing; when
\* the unique index rejects it the store retries the upsert or hands
\* DuplicateKeyError to the driver
UpsertInsert(h) ==
  /\ upserts[h].pc = "insert"
  /\ IF DuplicateKey(users, indexes, upserts[h].uid)
       THEN /\ \E next \in {"sent", "failed"} :
                 upserts' = [upserts EXCEPT ![h].pc = next]
            /\ users' = users
       ELSE /\ users' = upsert_insert(users, upserts[h].uid, upserts[h].now)
            /\ upserts' = [upserts EXCEPT ![h].pc = "done",
                                          ![h].inserted = TRUE,
                                          ![h].applied = NextApplied]
  /\ UNCHANGED <<history, nextId, clock, req, served, indexes, diag, listed>>

NextUpsert ==
  \/ startup_diagnostics
  \/ ProbeFirebase
  \/ ProbeMongodb
  \/ ProbeCloudflare
  \/ ProbeUsecases
  \/ FinishDiagnostics
  \/ Tick
  \/ \E h \in Handlers : TrackUserCall(h)
  \/ \E h \in Handlers : UpsertMatch(h)
  \/ \E h \in Handlers : UpsertInsert(h)

\* the startup run, then handlers whose track_user calls interleave
SpecUpsert == Init /\ [][NextUpsert]_vars

\* ------------------------------------------------- prompt construction
\* a POST /analyze of an authenticated subject whose body passed validation
\* reaches analyze_text
InitPrompt ==
  /\ history = {}
  /\ users = {}
  /\ nextId = 1
  /\ clock = 0
  /\ req \in {[Validated(FreshRequest("analyze")) EXCEPT
                 !.header = "bearer", !.user = uid,
                 !.textLen = MaxInputLength, !.text = text]
                : uid \in Users, text \in Texts}
  /\ served = 1
  /\ indexes = {}
  /\ diag = DiagOff(TRUE)
  /\ listed = NoListing
  /\ upserts = NoUpserts

\* analyze_text up to the call of call_llm, for every text
SpecPrompt == InitPrompt /\ [][AnalyzePreflight]_vars

\* ------------------------------------------------------------- properties
\* the request is a POST /analyze whose handler has looked up usecase_id
Resolving == req.route = "analyze" /\ req.lookedUp

\* this request has neither called the inference endpoint nor written a
\* history record
NoInferenceNoRecord ==
  /\ req.llmCalls = 0
  /\ req.inserted = 0
  /\ "history.insert_one" \notin req.storeOps

\* C1: a POST /analyze whose usecase_id is no key of the catalog ends with
\* 400; on that request call_llm is never called and no history record is
\* inserted
C1_UnknownUsecaseIs400 ==
  (Resolving /\ req.usecase_id \notin DOMAIN USECASES)
    => /\ req.pc = "done"
       /\ req.status = 400
       /\ NoInferenceNoRecord

C1_Witness ==
  /\ Resolving /\ req.usecase_id = "bogus"
  /\ req.pc = "done" /\ req.status = 400

\* the use case of the request lists target_language in extra_params and the
\* request's target_language is absent (None) or empty
MissingTargetLanguage ==
  /\ Resolving
  /\ req.usecase_id \in DOMAIN USECASES
  /\ "target_language" \in USECASES[req.usecase_id].extra_params
  /\ req.target_language \in {None, ""}

\* C2: a POST /analyze for a use case that requires target_language, sent
\* without one (absent or empty), fails with 400; the inference call has not
\* been made at any point of the request and no history record is inserted
C2_MissingLanguageIs400BeforeInference ==
  MissingTargetLanguage
    => /\ req.pc = "done"
       /\ req.status = 400
       /\ NoInferenceNoRecord

C2_Witness ==
  /\ MissingTargetLanguage /\ req.target_language = ""
  /\ req.pc = "done" /\ req.status = 400

\* the record this request inserted is in the store
InsertedRecord ==
  /\ req.inserted # 0
  /\ \E d \in history :
       /\ d._id = req.inserted
       /\ d.user_uid = req.user
       /\ d.usecase_id = req.usecase_id

\* insert_one was called on this request and did not return
InsertFailed ==
  /\ req.route = "analyze"
  /\ "history.insert_one" \in req.storeOps
  /\ req.inserted = 0

\* C3: POST /analyze answers 200 only when the record of the request is in
\* the history store and history_id is its id; when the insert fails the
\* request ends with 500
C3_SuccessOnlyAfterInsert ==
  /\ (req.route = "analyze" /\ req.pc = "done" /\ req.status = 200)
       => (InsertedRecord /\ req.respHistoryId = req.inserted)
  /\ InsertFailed => (req.pc = "done" /\ req.status = 500)

C3_Witness ==
  InsertFailed /\ req.storeError /\ req.pc = "done" /\ req.status = 500

\* a DELETE /history/{id} of subject uid as its handler receives it
DeleteBy(uid, id) ==
  [Validated(FreshRequest("delete")) EXCEPT !.user = uid, !.history_id = id]

\* well-formed ids that are stored for no one
UnknownIds == (1 .. nextId) \ {d._id : d \in history}

\* for every subject A and every record d of another subject: A's delete of
\* d's id removes nothing, is a 404 when the store answers, and gets the
\* response A gets for an id stored for no one
C4_NotYoursIsNotFound ==
  \A A \in Users, ok \in BOOLEAN :
    \A d \in {x \in history : x.user_uid # A} :
      LET mine == delete_response(history, DeleteBy(A, d._id), ok) IN
      /\ delete_one(history, DeleteBy(A, d._id), ok) = history
      /\ ok => mine.status = 404
      /\ \A u \in UnknownIds :
           LET other == delete_response(history, DeleteBy(A, u), ok) IN
           /\ other.status = mine.status
           /\ other.detail = mine.detail

\* the request that ended targeted a record of another subject: it is a 404
\* unless the store raised
C4_DeleteOfOthersRecord ==
  /\ req.route = "delete" /\ req.pc = "done"
  /\ \E d \in history : d._id = req.history_id /\ d.user_uid # req.user

\* a step removes a record only as a successful delete of its owner
C4_OnlyOwnerRemoves ==
  \A d \in history :
    d \notin history'
      => /\ req'.route = "delete" /\ req'.pc = "done" /\ req'.status = 200
         /\ req'.user = d.user_uid
         /\ req'.history_id = d._id

\* C4: a DELETE /history/{id} by subject A never removes a record owned by
\* another subject B and returns 404, the same response A gets for an id
\* stored for no one; a record is only ever removed by a delete of its owner
C4_DeleteIsOwnerScoped ==
  /\ [](C4_NotYoursIsNotFound
        /\ (C4_DeleteOfOthersRecord => (req.status = 404 \/ req.storeError)))
  /\ [][C4_OnlyOwnerRemoves]_vars

C4_Witness == C4_DeleteOfOthersRecord /\ req.status = 404

\* C5: GET /history of subject S returns only records whose user_uid is S
C5_HistoryIsCallersOnly ==
  (req.route = "history" /\ req.pc = "done" /\ req.status = 200)
    => \A i \in 1 .. Len(req.items) :
         \E d \in history : d._id = req.items[i].id /\ d.user_uid = req.user

C5_Witness ==
  /\ req.route = "history" /\ req.pc = "done" /\ req.status = 200
  /\ \E d \in history : d.user_uid # req.user

\* the inference call of this request was made and failed
InferenceFailed ==
  /\ req.route = "analyze"
  /\ req.llmCalls > 0
  /\ req.llmOutcome # "ok"

\* C6: every failure of the inference call (a non-200 status, a false
\* success flag, a transport failure) ends the request with 502 and no
\* history record is inserted
C6_InferenceFailureIs502 ==
  InferenceFailed
    => /\ req.pc = "done"
       /\ req.status = 502
       /\ req.inserted = 0
       /\ "history.insert_one" \notin req.storeOps

\* a health check has returned
HealthReturned == diag.mode = "health" /\ diag.pc = "done"

\* the probes that report failure
FailedProbes == {p \in Probes : diag.services[p].mark # "ok"}

\* C7: GET /health reports "healthy" iff each of the four probes reports
\* success, and "degraded" as soon as one of them reports failure
C7_HealthyIffAllProbesOk ==
  HealthReturned
    => /\ diag.overall = "healthy" <=> FailedProbes = {}
       /\ diag.overall = "degraded" <=> FailedProbes # {}

C7_Witness ==
  /\ HealthReturned
  /\ diag.overall = "degraded"
  /\ Cardinality(FailedProbes) = 1

\* a diagnostics run has called its last probe
ProbesDone == diag.pc \in {"finish", "done"}

\* C8: in the health check and in the startup diagnostics a probe whose
\* dependency raises or fails aborts nothing: every probe is executed, each
\* reports the status of its own dependency, and the run completes
C8_ProbesAreIsolated ==
  /\ diag.pc # "aborted"
  /\ ProbesDone
       => /\ diag.executed = Probes
          /\ \A p \in Probes :
               /\ diag.services[p].mark \in {"ok", "err"}
               /\ diag.services[p].mark = "ok" <=> diag.deps[p] = "ok"

C8_Witness ==
  /\ diag.pc = "done"
  /\ diag.deps["cloudflare_ai"] = "transport_error"
  /\ \A p \in Probes \ {"cloudflare_ai"} : diag.services[p].mark = "ok"
  /\ diag.services["cloudflare_ai"].mark = "err"

\* the body of this POST /analyze has been validated and its text length is
\* outside [10, max_input_length]
TextOutOfRange ==
  /\ req.route = "analyze"
  /\ req.textLen # 0
  /\ ~(req.textLen >= MinLength /\ req.textLen <= MaxInputLength)

\* the handler of this request has done nothing: no catalog lookup, no
\* inference call, no store operation
NoHandlerLogic ==
  /\ ~req.lookedUp
  /\ req.llmCalls = 0
  /\ req.storeOps = {}
  /\ req.inserted = 0

AuthenticationFailed ==
  /\ req.header # None
  /\ req.user = None
  /\ req.pc # "received"

\* C10: on every protected route a request whose token verification fails
\* (missing or malformed header included) ends with 401 and no handler logic
\* runs
C10_AuthFailureIs401 ==
  AuthenticationFailed
    => /\ req.pc = "done"
       /\ req.status = 401
       /\ NoHandlerLogic

\* a DELETE /history/{id} of an authenticated caller has ended without
\* removing a record, and the store itself did not fail
DeleteRemovedNothing ==
  /\ req.route = "delete" /\ req.pc = "done"
  /\ req.user # None
  /\ req.status # 200
  /\ ~req.storeError

\* C11: a DELETE /history/{id} whose id is not the id of a record of the
\* caller (an id stored for no one, a string that is no well-formed ObjectId)
\* ends with 404, never with another error
C11_DeleteMissIsNotFound ==
  DeleteRemovedNothing => req.status = 404

\* the request was authenticated, its route function ran (its parameters
\* were valid) and it has been answered, the store having answered every
\* call made on it
AuthenticatedAndAnswered ==
  /\ req.pc = "done"
  /\ req.user # None
  /\ req.status # 422
  /\ ~req.storeError

\* C14: every authenticated request on a protected route, whatever its
\* outcome, has upserted the caller's profile by the time it is answered:
\* the profile exists and update_one was called on the users collection
C14_AuthenticatedRequestUpserts ==
  AuthenticatedAndAnswered
    => /\ "users.update_one" \in req.storeOps
       /\ \E d \in users : d.uid = req.user

\* the startup run has logged that the server is ready
StartupLoggedReady == diag.mode = "startup" /\ diag.ready

\* C15: when the startup probe of the document store or of the identity
\* authority fails, the process never logs readiness
C15_NoReadinessAfterFailedProbe ==
  StartupLoggedReady
    => /\ StartsWithCheckMark(diag.services["mongodb"])
       /\ StartsWithCheckMark(diag.services["firebase"])

\* C17: a POST /analyze that ends in an error has left no history record
\* behind: records are only those of requests answered 200
C17_ErrorLeavesNoRecord ==
  (req.route = "analyze" /\ req.pc = "done" /\ req.status # 200)
    => req.inserted = 0

\* the message of each failure class of the verifier
ClassMessage(kind) ==
  CASE kind = "expired"     -> "Token has expired. Please sign in again."
    [] kind = "revoked"     -> "Token has been revoked. Please sign in again."
    [] kind = "garbage"     -> "Invalid authentication token."
    [] kind = "unreachable" -> "Could not verify credentials."
    [] OTHER                -> ""

\* the verifier has decided on a bearer token that is not a valid one
VerifiedBadToken ==
  /\ req.pc \in {"authenticated", "done"}
  /\ req.token.kind \in TokenKinds \ {"valid"}

\* C18: an expired, a revoked, a structurally invalid token and any other
\* verification failure each end the request with 401 and the message of
\* their own class
C18_FailuresAreClassified ==
  VerifiedBadToken
    => /\ req.pc = "done"
       /\ req.status = 401
       /\ req.detail = ClassMessage(req.token.kind)

\* C19: a stored record carries a target_language only when its use case
\* lists target_language in extra_params; the record of any other use case
\* carries none (None or the empty string), whatever the caller supplied
C19_TargetLanguageOnlyWhenDeclared ==
  \A d \in history :
    "target_language" \notin get_usecase(d.usecase_id).extra_params
      => Falsy(d.target_language)

\* a GET /history has returned a listing
ListingReturned == req.route = "history" /\ req.pc = "done" /\ req.status = 200

\* C12 as stated: in a returned listing the created_at of each item is
\* strictly greater than that of the item after it
C12_StrictlyDescending ==
  ListingReturned
    => \A i \in 1 .. Len(req.items) - 1 :
         req.items[i].created_at > req.items[i + 1].created_at

\* C12 as amended: in a returned listing the created_at of each item is
\* greater than or equal to that of the item after it, and the items are
\* records of the store, each listed once
C12_Descending ==
  ListingReturned
    => /\ \A i \in 1 .. Len(req.items) - 1 :
            req.items[i].created_at >= req.items[i + 1].created_at
       /\ \A i \in 1 .. Len(req.items) :
            /\ \E d \in history : HistoryItem(d) = req.items[i]
            /\ \A j \in 1 .. Len(req.items) :
                 i # j => req.items[i].id # req.items[j].id

C12_Witness ==
  /\ ListingReturned
  /\ Len(req.items) >= 2
  /\ req.items[1].created_at > req.items[2].created_at

\* the second call of the pair: (skip=0, limit=N+M) after (skip=N, limit=M)
\* of the same subject
SecondWindow ==
  /\ ListingReturned
  /\ listed.user = req.user
  /\ listed.limit >= 1
  /\ req.skip = 0
  /\ req.limit = listed.skip + listed.limit

\* the elements a + 1 .. b of a sequence, as far as it has them
Elements(seq, a, b) ==
  SubSeq(seq, a + 1, IF b < Len(seq) THEN b ELSE Len(seq))

\* C13: with the store unchanged, the listing returned for (skip=N, limit=M)
\* equals the elements N+1 .. N+M of the listing returned for
\* (skip=0, limit=N+M) of the same subject
C13_WindowsAreConsistent ==
  SecondWindow
    => listed.items = Elements(req.items, listed.skip, listed.skip + listed.limit)

\* the upserts of subject uid that the store has applied
AppliedFor(uid) ==
  {h \in Handlers : upserts[h].uid = uid /\ upserts[h].pc = "done"}

\* some upsert of subject uid was applied and none is in flight
UpsertsSettled(uid) ==
  /\ AppliedFor(uid) # {}
  /\ \A h \in Handlers :
       upserts[h].uid = uid => upserts[h].pc \in {"done", "failed"}

\* the upsert of subject uid the store applied last
LastApplied(uid) ==
  CHOOSE h \in AppliedFor(uid) :
    \A g \in AppliedFor(uid) : upserts[g].applied <= upserts[h].applied

\* C16: after any interleaving of concurrent track_user calls for a subject
\* there is exactly one profile of the subject, its created_at is the one
\* the insert that created it wrote, and its last_active is that of the
\* upsert applied last
C16_OneProfilePerSubject ==
  \A uid \in Users :
    UpsertsSettled(uid)
      => \E d \in users :
           /\ matching(users, uid) = {d}
           /\ \E h \in AppliedFor(uid) :
                upserts[h].inserted /\ d.created_at = upserts[h].now
           /\ d.last_active = upserts[LastApplied(uid)].now

\* the template with each placeholder replaced once, "{input_text}" by the
\* text and "{target_language}" by the language, nothing else touched
RECURSIVE Substituted(_, _, _)
Substituted(template, text, language) ==
  IF template = << >> THEN << >>
  ELSE (CASE Head(template) = "{input_text}"      -> text
          [] Head(template) = "{target_language}" -> language
          [] OTHER                                -> <<Head(template)>>)
       \o Substituted(Tail(template), text, language)

\* analyze_text has built the prompt of a use case that requires
\* target_language
PromptBuilt ==
  /\ req.route = "analyze"
  /\ req.pc = "call_llm"
  /\ "target_language" \in get_usecase(req.usecase_id).extra_params

\* C20: for a use case that requires target_language the prompt is the
\* template with the input-text placeholder replaced by the caller's text
\* and the target-language placeholder by the supplied language, the text
\* itself unchanged even when it contains the placeholder tokens
C20_PromptIsLiteralSubstitution ==
  PromptBuilt
    => req.prompt = Substituted(get_usecase(req.usecase_id).prompt_template,
                                req.text, Chars(req.target_language))

====
